---- MODULE Spec2Model ----
(***************************************************************************)
(* SEYA API (src/main.py, src/schemas.py): the HTTP endpoint layer over a  *)
(* document store and a payment processor.                                 *)
(*                                                                         *)
(* Text is a sequence of one-character strings where the code looks inside *)
(* it (identifier strings, titles, e-mail addresses) and a TLA+ string     *)
(* where it is only copied or compared. A value held in a document is a    *)
(* tagged record [t, v]; an Optional[str] argument is <<>> (None) or <<s>>.*)
(***************************************************************************)
EXTENDS Integers, Sequences, FiniteSets, TLC

\* ------------------------------------------------------------------ bounds

\* Seed requests that may be in flight at the same time.
NumClients == 2
\* Seed requests started in one behaviour.
MaxSeedCalls == 3
\* Writes the store rejects in one behaviour.
MaxRejects == 1
\* Contact messages stored in one behaviour.
MaxMessages == 1
\* Session requests handed to the payment processor in one behaviour.
MaxSessions == 1
\* Documents beyond a listing's limit that a stored collection may hold.
MaxExtra == 3

Clients == 1 .. NumClients

\* ------------------------------------------------------------------ text

HexLower == <<"0", "1", "2", "3", "4", "5", "6", "7", "8", "9", "a", "b", "c", "d", "e", "f">>

HexChars == {HexLower[i] : i \in 1 .. 16} \cup {"A", "B", "C", "D", "E", "F"}

UpperChars ==
  <<"A", "B", "C", "D", "E", "F", "G", "H", "I", "J", "K", "L", "M", "N", "O", "P", "Q", "R",
    "S", "T", "U", "V", "W", "X", "Y", "Z">>

LowerChars ==
  <<"a", "b", "c", "d", "e", "f", "g", "h", "i", "j", "k", "l", "m", "n", "o", "p", "q", "r",
    "s", "t", "u", "v", "w", "x", "y", "z">>

\* str.lower() of one character.
LowerChar(c) ==
  IF \E i \in 1 .. Len(UpperChars) : UpperChars[i] = c
    THEN LowerChars[CHOOSE i \in 1 .. Len(UpperChars) : UpperChars[i] = c]
    ELSE c

Lower(s) == [i \in 1 .. Len(s) |-> LowerChar(s[i])]

\* Whether pat occurs in s as a contiguous run.
Contains(s, pat) ==
  \E k \in 0 .. (Len(s) - Len(pat)) : \A i \in 1 .. Len(pat) : s[k + i] = pat[i]

\* The value of one hexadecimal digit, either case.
HexVal(c) == (CHOOSE i \in 1 .. 16 : HexLower[i] = LowerChar(c)) - 1

Take(s, n) == IF Len(s) <= n THEN s ELSE SubSeq(s, 1, n)

\* ------------------------------------------------------------ tagged values

Oid(n) == [t |-> "oid", v |-> n]
Str(s) == [t |-> "str", v |-> s]
Bool(b) == [t |-> "bool", v |-> b]
Num(n) == [t |-> "num", v |-> n]
List(s) == [t |-> "list", v |-> s]

\* isinstance(v, ObjectId)
IsObjectId(x) == x.t = "oid"

\* ObjectId's length in hexadecimal digits (12 bytes).
OidLen == 24

RECURSIVE HexDigitsOf(_, _)
\* The k low hexadecimal digits of n, most significant first.
HexDigitsOf(n, k) ==
  IF k = 0 THEN <<>> ELSE Append(HexDigitsOf(n \div 16, k - 1), HexLower[(n % 16) + 1])

\* str(ObjectId): 24 lower-case hexadecimal digits.
OidToStr(o) == HexDigitsOf(o.v, OidLen)

\* str(v) of a value that serialize stringifies.
ToStr(x) == IF IsObjectId(x) THEN Str(OidToStr(x)) ELSE x

\* WellFormedOid without the check of the length.
WellFormedOid_AnyLength(s) == \A i \in 1 .. Len(s) : s[i] \in HexChars

\* ObjectId.is_valid for a string: 24 hexadecimal digits.
WellFormedOid(s) == Len(s) = OidLen /\ \A i \in 1 .. Len(s) : s[i] \in HexChars

RECURSIVE HexValue(_)
HexValue(s) ==
  IF s = <<>> THEN 0 ELSE 16 * HexValue(SubSeq(s, 1, Len(s) - 1)) + HexVal(s[Len(s)])

\* ObjectId(id_str) of a well-formed string.
ParseOid(s) == Oid(HexValue(s))

\* oid(id_str): the identifier, or the 400 it raises.
oid(id_str) ==
  IF WellFormedOid(id_str)
    THEN [ok |-> TRUE, value |-> ParseOid(id_str)]
    ELSE [ok |-> FALSE, status |-> 400, detail |-> "Invalid ID"]

\* ------------------------------------------------------------- serialize

\* The None document.
NoDoc == [t |-> "null", v |-> 0]
\* The empty document {}.
EmptyDoc == [k \in {} |-> NoDoc]

\* `not doc`
Falsy(doc) == doc = NoDoc \/ DOMAIN doc = {}

\* d = doc.copy(); if "_id" in d: d["id"] = str(d.pop("_id"))
PopId(doc) ==
  IF "_id" \in DOMAIN doc
    THEN [k \in (DOMAIN doc \ {"_id"}) \cup {"id"} |->
            IF k = "id" THEN Str(OidToStr(doc["_id"])) ELSE doc[k]]
    ELSE doc

\* for k, v in list(d.items()): if isinstance(v, ObjectId): d[k] = str(v)
StringifyIds(d) == [k \in DOMAIN d |-> ToStr(d[k])]

serialize(doc) == IF Falsy(doc) THEN doc ELSE StringifyIds(PopId(doc))

\* --------------------------------------------------------------- schemas

Null == [t |-> "null", v |-> 0]
Map(r) == [t |-> "map", v |-> r]

Categories == {"Hoodies", "Tees", "Pantalons", "Accessoires"}

BlogCategories == {"drops", "collabs", "conseils"}

\* Variant(sku, size, stock): color and price keep their defaults.
Variant(sku, size, stock) ==
  Map([sku |-> Str(sku), size |-> Str(size), color |-> Null, stock |-> Num(stock),
       price |-> Null])

\* Product(...): the validated record, as the mapping that is stored.
ProductSchema(title, description, price, category, images, tags, variants, active) ==
  [title |-> Str(title), description |-> description, price |-> Num(price),
   category |-> Str(category), images |-> List(images), tags |-> List(tags),
   variants |-> List(variants), active |-> Bool(active)]

\* BlogPost(...)
BlogSchema(title, slug, category, published) ==
  [title |-> Str(title), slug |-> Str(slug), content |-> Str("..."),
   category |-> Str(category), cover_image |-> Null, published |-> Bool(published)]

\* EmailStr: one "@", a local part, and a domain with an inner period.
IsEmail(s) ==
  /\ Cardinality({i \in 1 .. Len(s) : s[i] = "@"}) = 1
  /\ LET at == CHOOSE i \in 1 .. Len(s) : s[i] = "@"
     IN /\ at > 1
        /\ \E j \in (at + 2) .. (Len(s) - 1) : s[j] = "."
        /\ s[at + 1] # "."

\* Message(**payload.model_dump()): the record, or the validation error.
MessageSchema(payload) ==
  IF IsEmail(payload.email)
    THEN [ok |-> TRUE,
          value |-> [name |-> Str(payload.name), email |-> Str(payload.email),
                     subject |-> Str(payload.subject), message |-> Str(payload.message),
                     source |-> Str("contact")]]
    ELSE [ok |-> FALSE, error |-> "value is not a valid email address"]

\* The three demo products of seed (accents dropped from the texts).
demo_products ==
  << ProductSchema(<<"S", "E", "Y", "A", " ", "H", "o", "o", "d", "i", "e", " ", "N", "o", "i", "r">>, Str("Hoodie premium en coton epais."),
                   89, "Hoodies",
                   <<Str("https://images.unsplash.com/photo-1520975922203-b8ad5b1cfdf4")>>,
                   <<Str("nouveau"), Str("best")>>,
                   <<Variant("HD-BLK-S", "S", 10), Variant("HD-BLK-M", "M", 15)>>, TRUE),
     ProductSchema(<<"S", "E", "Y", "A", " ", "T", "e", "e", " ", "C", "r", "e", "m", "e">>, Str("T-shirt oversize creme."),
                   39, "Tees",
                   <<Str("https://images.unsplash.com/photo-1512436991641-6745cdb1723f")>>,
                   <<Str("drop")>>,
                   <<Variant("TS-CRM-M", "M", 25)>>, TRUE),
     ProductSchema(<<"S", "E", "Y", "A", " ", "C", "a", "r", "g", "o", " ", "B", "l", "e", "u">>, Str("Cargo bleu electrique."),
                   109, "Pantalons",
                   <<Str("https://images.unsplash.com/photo-1520975853989-5c2f5cb4831d")>>,
                   <<Str("limited")>>,
                   <<Variant("CRG-BLU-32", "32", 8)>>, TRUE) >>

\* ----------------------------------------------------------------- state

VARIABLES
  db,          \* whether the database handle is present (db is not None)
  stripeKey,   \* STRIPE_SECRET_KEY: <<>> when unset, else <<value>>
  product,     \* the product collection, in insertion order
  blogpost,    \* the blogpost collection, in insertion order
  message,     \* the message collection, in insertion order
  sessions,    \* the session requests handed to the payment processor
  pc,          \* per seed request: "idle" or "insert" (past the emptiness check)
  inserted,    \* per seed request: its local counter
  seedCalls,   \* seed requests started
  rejected,    \* writes the store has rejected
  seedLog,     \* the responses of the finished seed requests, in order
  last         \* the response to the latest finished request

vars ==
  <<db, stripeKey, product, blogpost, message, sessions, pc, inserted, seedCalls,
    rejected, seedLog, last>>

\* ----------------------------------------------------------------- store

Collection(name) ==
  CASE name = "product" -> product
    [] name = "blogpost" -> blogpost
    [] name = "message" -> message

\* The identifiers in use in a collection.
IdsOf(coll) == {coll[i]["_id"].v : i \in 1 .. Len(coll)}

\* The identifier the store assigns to a new document of coll.
FreshOid(coll) ==
  Oid(IF coll = <<>> THEN 1 ELSE 1 + CHOOSE m \in IdsOf(coll) : \A n \in IdsOf(coll) : n <= m)

\* The document create_document stores for a record: the record and its identifier.
Stored(coll, record) ==
  [k \in DOMAIN record \cup {"_id"} |-> IF k = "_id" THEN FreshOid(coll) ELSE record[k]]

\* create_document(collection_name, record) that the store accepts.
create_document(coll, record) == Append(coll, Stored(coll, record))

\* One condition of a filter against a stored value.
Satisfies(value, cond) ==
  IF cond.t = "regex"
    THEN value.t = "str" /\ Contains(Lower(value.v), Lower(cond.v))
    ELSE value = cond

\* Whether a document matches a filter (all of its conditions).
Matches(doc, filter) ==
  \A k \in DOMAIN filter : k \in DOMAIN doc /\ Satisfies(doc[k], filter[k])

\* collection.find(filter): the matching documents in natural order.
find(coll, filter) == SelectSeq(coll, LAMBDA d : Matches(d, filter))

\* collection.find_one(filter): the first match, or None.
find_one(coll, filter) ==
  LET hits == find(coll, filter) IN IF hits = <<>> THEN NoDoc ELSE hits[1]

\* SortByIdDesc without the sort: the natural order.
SortByIdDesc_Unsorted(docs) == docs

\* cursor.sort("_id", -1): by identifier, largest first (equal identifiers keep
\* their natural order). Each document goes to the place after the documents
\* that sort before it.
SortByIdDesc(docs) ==
  LET n == Len(docs)
      ids == SubSeq([i \in 1 .. n |-> docs[i]["_id"].v], 1, n)
      place == SubSeq([i \in 1 .. n |->
                        1 + Cardinality({j \in 1 .. n : \/ ids[j] > ids[i]
                                                        \/ ids[j] = ids[i] /\ j < i})],
                      1, n)
  IN SubSeq([r \in 1 .. n |-> docs[CHOOSE i \in 1 .. n : place[i] = r]], 1, n)

\* {"$regex": q, "$options": "i"}
Regex(q) == [t |-> "regex", v |-> q]

\* ------------------------------------------------------------- responses

\* A finished request: the route, what it was called with, and the answer.
Response(route, req, status, body) ==
  [route |-> route, req |-> req, status |-> status, body |-> body]

NoArgs == <<>>

Detail(text) == [detail |-> text]

\* `if category:` / `if secret`: a present, non-empty string.
Truthy(opt) == opt # <<>> /\ opt[1] # ""

\* `if q:` for a text held as a sequence of characters.
TruthyText(opt) == opt # <<>> /\ opt[1] # <<>>

ProductLimit == 100

BlogLimit == 50

\* --------------------------------------------------------------- handlers

\* GET /
root ==
  /\ last' = Response("root", NoArgs, 200, [name |-> "SEYA API", status |-> "ok"])
  /\ UNCHANGED <<db, stripeKey, product, blogpost, message, sessions, pc, inserted,
                 seedCalls, rejected, seedLog>>

\* db.list_collection_names(): the collections that hold documents.
CollectionNames ==
  {n \in {"product", "blogpost", "message"} : Collection(n) # <<>>}

\* The body of GET /test, given DATABASE_URL's presence and whether listing raises.
TestBody(urlSet, listingOk) ==
  IF ~db
    THEN [backend |-> "Running", database |-> "Not Available", database_url |-> "Not Set",
          database_name |-> "Not Set", collections |-> {}]
    ELSE [backend |-> "Running",
          database |-> IF listingOk THEN "Connected" ELSE "Error",
          database_url |-> IF urlSet THEN "Set" ELSE "Not Set",
          database_name |-> "seya",
          collections |-> IF listingOk THEN CollectionNames ELSE {}]

\* GET /test
test_database ==
  /\ \E urlSet \in BOOLEAN, listingOk \in BOOLEAN :
       last' = Response("test", NoArgs, 200, TestBody(urlSet, listingOk))
  /\ UNCHANGED <<db, stripeKey, product, blogpost, message, sessions, pc, inserted,
                 seedCalls, rejected, seedLog>>

\* ProductFilter without the active condition.
ProductFilter_AnyActive(category, q) ==
  LET base == [category |-> Str(category[1])]
      withCat == IF Truthy(category) THEN base ELSE [k \in {} |-> base.category]
  IN IF TruthyText(q) THEN withCat @@ [title |-> Regex(q[1])] ELSE withCat

\* filter_query of list_products
ProductFilter(category, q) ==
  LET base == [active |-> Bool(TRUE)]
      withCat == IF Truthy(category) THEN base @@ [category |-> Str(category[1])] ELSE base
  IN IF TruthyText(q) THEN withCat @@ [title |-> Regex(q[1])] ELSE withCat

\* The response of GET /api/products
ListProductsResponse(category, q) ==
  IF ~db
    THEN Response("list_products", [category |-> category, q |-> q], 500,
                  Detail("Database not configured"))
    ELSE LET items == Take(find(product, ProductFilter(category, q)), ProductLimit)
         IN Response("list_products", [category |-> category, q |-> q], 200,
                     [i \in 1 .. Len(items) |-> serialize(items[i])])

\* GET /api/products
list_products(category, q) ==
  /\ last' = ListProductsResponse(category, q)
  /\ UNCHANGED <<db, stripeKey, product, blogpost, message, sessions, pc, inserted,
                 seedCalls, rejected, seedLog>>

\* The response of GET /api/products/{product_id}
GetProductResponse(product_id) ==
  IF ~db
    THEN Response("get_product", product_id, 500, Detail("Database not configured"))
    ELSE LET id == oid(product_id)
         IN IF ~id.ok
              THEN Response("get_product", product_id, id.status, Detail(id.detail))
              ELSE LET doc == find_one(product, [_id |-> id.value])
                   IN IF Falsy(doc)
                        THEN Response("get_product", product_id, 404, Detail("Product not found"))
                        ELSE Response("get_product", product_id, 200, serialize(doc))

\* get_product that takes the document it finds out of the collection.
get_product_Pops(product_id) ==
  /\ last' = GetProductResponse(product_id)
  /\ product' = IF last'.status = 200
                  THEN SelectSeq(product, LAMBDA d : serialize(d) # last'.body)
                  ELSE product
  /\ UNCHANGED <<db, stripeKey, blogpost, message, sessions, pc, inserted, seedCalls,
                 rejected, seedLog>>

\* GET /api/products/{product_id}
get_product(product_id) ==
  /\ last' = GetProductResponse(product_id)
  /\ UNCHANGED <<db, stripeKey, product, blogpost, message, sessions, pc, inserted,
                 seedCalls, rejected, seedLog>>

\* query of list_blog
BlogFilter(category) ==
  LET base == [published |-> Bool(TRUE)]
  IN IF Truthy(category) THEN base @@ [category |-> Str(category[1])] ELSE base

\* The response of GET /api/blog
ListBlogResponse(category) ==
  IF ~db
    THEN Response("list_blog", [category |-> category], 500,
                  Detail("Database not configured"))
    ELSE LET posts == Take(SortByIdDesc(find(blogpost, BlogFilter(category))), BlogLimit)
         IN Response("list_blog", [category |-> category], 200,
                     [i \in 1 .. Len(posts) |-> serialize(posts[i])])

\* GET /api/blog
list_blog(category) ==
  /\ last' = ListBlogResponse(category)
  /\ UNCHANGED <<db, stripeKey, product, blogpost, message, sessions, pc, inserted,
                 seedCalls, rejected, seedLog>>

\* The response of a seed request that found products.
SeedNoop == Response("seed", NoArgs, 200, [inserted |-> 0, message |-> "Products already exist"])

\* SeedBegin without the emptiness check.
SeedBegin_NoCheck(c) ==
  /\ pc[c] = "idle"
  /\ seedCalls < MaxSeedCalls
  /\ seedCalls' = seedCalls + 1
  /\ IF ~db
       THEN /\ last' = Response("seed", NoArgs, 500, Detail("Database not configured"))
            /\ seedLog' = Append(seedLog, last')
            /\ UNCHANGED <<pc, inserted>>
       ELSE /\ pc' = [pc EXCEPT ![c] = "insert"]
            /\ inserted' = [inserted EXCEPT ![c] = 0]
            /\ UNCHANGED <<last, seedLog>>
  /\ UNCHANGED <<db, stripeKey, product, blogpost, message, sessions, rejected>>

\* POST /api/seed, up to the emptiness check: the 500 without a database, the no-op
\* on a non-empty collection, or on to the inserts.
SeedBegin(c) ==
  /\ pc[c] = "idle"
  /\ seedCalls < MaxSeedCalls
  /\ seedCalls' = seedCalls + 1
  /\ IF ~db
       THEN /\ last' = Response("seed", NoArgs, 500, Detail("Database not configured"))
            /\ seedLog' = Append(seedLog, last')
            /\ UNCHANGED <<pc, inserted>>
       ELSE LET count == Len(product)
            IN IF count > 0
                 THEN /\ last' = SeedNoop
                      /\ seedLog' = Append(seedLog, last')
                      /\ UNCHANGED <<pc, inserted>>
                 ELSE /\ pc' = [pc EXCEPT ![c] = "insert"]
                      /\ inserted' = [inserted EXCEPT ![c] = 0]
                      /\ UNCHANGED <<last, seedLog>>
  /\ UNCHANGED <<db, stripeKey, product, blogpost, message, sessions, rejected>>

\* One turn of seed's loop with a write the store accepts; the last turn returns.
SeedInsert(c) ==
  /\ pc[c] = "insert"
  /\ product' = create_document(product, demo_products[inserted[c] + 1])
  /\ inserted' = [inserted EXCEPT ![c] = inserted[c] + 1]
  /\ IF inserted'[c] = Len(demo_products)
       THEN /\ pc' = [pc EXCEPT ![c] = "idle"]
            /\ last' = Response("seed", NoArgs, 200, [inserted |-> inserted'[c]])
            /\ seedLog' = Append(seedLog, last')
       ELSE UNCHANGED <<pc, last, seedLog>>
  /\ UNCHANGED <<db, stripeKey, blogpost, message, sessions, seedCalls, rejected>>

\* One turn of seed's loop with a write the store rejects: create_document raises,
\* nothing catches it, and the request ends in a 500.
SeedInsertFails(c) ==
  /\ pc[c] = "insert"
  /\ rejected < MaxRejects
  /\ rejected' = rejected + 1
  /\ pc' = [pc EXCEPT ![c] = "idle"]
  /\ last' = Response("seed", NoArgs, 500, Detail("Internal Server Error"))
  /\ seedLog' = Append(seedLog, last')
  /\ UNCHANGED <<db, stripeKey, product, blogpost, message, sessions, inserted, seedCalls>>

\* ContactIn: the four fields, each a text.
ContactFields == {"name", "email", "subject", "message"}

\* The request validation of `payload: ContactIn`: every field is present.
ContactInOk(payload) == \A f \in ContactFields : payload[f] # <<>>

\* payload.model_dump()
ModelDump(payload) == [f \in ContactFields |-> payload[f][1]]

\* POST /api/contact; accepted tells whether the store takes the write. Without a
\* database handle create_document raises like a rejected write.
contact_submit(payload, accepted) ==
  /\ Len(message) < MaxMessages
  /\ (db /\ ~accepted) => rejected < MaxRejects
  /\ IF ~ContactInOk(payload)
       THEN /\ last' = Response("contact", payload, 422, Detail("Field required"))
            /\ UNCHANGED <<message, rejected>>
       ELSE LET m == MessageSchema(ModelDump(payload))
            IN IF ~m.ok
                 THEN /\ last' = Response("contact", payload, 500, Detail(m.error))
                      /\ UNCHANGED <<message, rejected>>
                 ELSE IF db /\ accepted
                        THEN /\ message' = create_document(message, m.value)
                             /\ last' = Response("contact", payload, 200, [status |-> "ok"])
                             /\ UNCHANGED rejected
                        ELSE /\ rejected' = IF db THEN rejected + 1 ELSE rejected
                             /\ last' = Response("contact", payload, 500,
                                                 Detail("write failed"))
                             /\ UNCHANGED message
  /\ UNCHANGED <<db, stripeKey, product, blogpost, sessions, pc, inserted, seedCalls,
                 seedLog>>

\* round(x): to the nearest integer, a tie to the even one; x is n / 10.
RoundTenths(n) ==
  LET lo == n \div 10
      r == n % 10
  IN IF r < 5 THEN lo ELSE IF r > 5 THEN lo + 1 ELSE IF lo % 2 = 0 THEN lo ELSE lo + 1

\* One line item of the session request; unit_price is held in thousandths.
LineItem(i, currency) ==
  [price_data |->
     [currency |-> currency,
      product_data |-> IF Truthy(i.image)
                         THEN [name |-> i.title, images |-> <<i.image[1]>>]
                         ELSE [name |-> i.title],
      unit_amount |-> RoundTenths(i.unit_price)],
   quantity |-> i.quantity]

\* The request stripe.checkout.Session.create is called with.
SessionRequest(payload) ==
  [mode |-> "payment",
   line_items |-> [k \in 1 .. Len(payload.items) |-> LineItem(payload.items[k], payload.currency)],
   success_url |-> payload.success_url,
   cancel_url |-> payload.cancel_url]

\* create_checkout_session that takes an empty credential for a credential.
create_checkout_session_EmptyKey(payload, created) ==
  /\ IF stripeKey = <<>>
       THEN /\ last' = Response("checkout", payload, 400, Detail("Stripe not configured"))
            /\ UNCHANGED sessions
       ELSE /\ Len(sessions) < MaxSessions
            /\ sessions' = Append(sessions, SessionRequest(payload))
            /\ last' = IF created
                         THEN Response("checkout", payload, 200,
                                       [id |-> "cs_test", url |-> "https://checkout.stripe.com/c"])
                         ELSE Response("checkout", payload, 500, Detail("processor error"))
  /\ UNCHANGED <<db, stripeKey, product, blogpost, message, pc, inserted, seedCalls,
                 rejected, seedLog>>

\* POST /api/checkout; created tells whether the processor creates the session.
create_checkout_session(payload, created) ==
  /\ IF ~Truthy(stripeKey)
       THEN /\ last' = Response("checkout", payload, 400, Detail("Stripe not configured"))
            /\ UNCHANGED sessions
       ELSE /\ Len(sessions) < MaxSessions
            /\ sessions' = Append(sessions, SessionRequest(payload))
            /\ last' = IF created
                         THEN Response("checkout", payload, 200,
                                       [id |-> "cs_test", url |-> "https://checkout.stripe.com/c"])
                         ELSE Response("checkout", payload, 500, Detail("processor error"))
  /\ UNCHANGED <<db, stripeKey, product, blogpost, message, pc, inserted, seedCalls,
                 rejected, seedLog>>

\* ------------------------------------------------------------ the system

\* The requests the running system is driven with: per route, a few calls that
\* reach each of its answers.
Zeros(k) == [i \in 1 .. k |-> "0"]

SystemIds == {OidToStr(Oid(1)), OidToStr(Oid(9)), <<"1">>}

SystemProductArgs == {<<(<<>>), (<<>>)>>, <<(<<"Tees">>), (<< <<"t", "E">> >>)>>}

SystemBlogArgs == {<<>>, <<"drops">>}

GoodContact ==
  [name |-> <<"Ann">>, email |-> << <<"a", "@", "b", ".", "c">> >>, subject |-> <<"Hi">>,
   message |-> <<"Hello">>]

SystemContacts == {GoodContact, [GoodContact EXCEPT !.email = << <<"a", "b", ".", "c">> >>]}

TeeItem ==
  [product_id |-> "p1", title |-> "Tee", quantity |-> 2, unit_price |-> 19990, image |-> <<>>]

SystemCarts ==
  {[items |-> <<TeeItem>>, currency |-> "eur", success_url |-> "https://s",
    cancel_url |-> "https://c"]}

\* A small blog collection whose identifiers do not follow the insertion order.
SmallBlog ==
  << [_id |-> Oid(2)] @@ BlogSchema("Drop 1", "drop-1", "drops", TRUE),
     [_id |-> Oid(1)] @@ BlogSchema("Draft", "draft", "collabs", FALSE),
     [_id |-> Oid(3)] @@ BlogSchema("Collab", "collab", "collabs", TRUE) >>

NoResponse == Response("none", NoArgs, 0, NoArgs)

\* What every start has in common: nothing requested yet.
Idle ==
  /\ sessions = <<>>
  /\ pc = [c \in Clients |-> "idle"]
  /\ inserted = [c \in Clients |-> 0]
  /\ seedCalls = 0
  /\ rejected = 0
  /\ seedLog = <<>>
  /\ last = NoResponse

\* The process after start-up: the handle is there or not, the credential is set or
\* not, the product and message collections are empty, the blog is as its writers
\* left it.
Init ==
  /\ db \in BOOLEAN
  /\ stripeKey \in {<<>>, <<"sk_test">>}
  /\ product = <<>>
  /\ blogpost = SmallBlog
  /\ message = <<>>
  /\ Idle

\* The routes that run in one step.
Routes ==
  \/ root
  \/ test_database
  \/ \E a \in SystemProductArgs : list_products(a[1], a[2])
  \/ \E product_id \in SystemIds : get_product(product_id)
  \/ \E payload \in SystemContacts, accepted \in BOOLEAN : contact_submit(payload, accepted)
  \/ \E category \in SystemBlogArgs : list_blog(category)
  \/ \E payload \in SystemCarts, created \in BOOLEAN : create_checkout_session(payload, created)

AllIdle == \A c \in Clients : pc[c] = "idle"

\* The system with its seed requests one after the other.
Next ==
  \/ Routes
  \/ \E c \in Clients : AllIdle /\ SeedBegin(c)
  \/ \E c \in Clients : SeedInsert(c)
  \/ \E c \in Clients : SeedInsertFails(c)

Spec == Init /\ [][Next]_vars

\* Seed requests run in threads of the server's pool, interleaved at each store call.
ConcurrentNext ==
  \/ Routes
  \/ \E c \in Clients : SeedBegin(c)
  \/ \E c \in Clients : SeedInsert(c)
  \/ \E c \in Clients : SeedInsertFails(c)

SpecConcurrent == Init /\ [][ConcurrentNext]_vars

\* ----------------------------------------------------------------- seed

\* A stored document without its identifier: the record it was made from.
RecordOf(doc) == [k \in DOMAIN doc \ {"_id"} |-> doc[k]]

\* C1: from an empty product collection, with the database there and every write
\* accepted, the first seed request answers inserted = 3 and leaves exactly the
\* three demo products, and the second answers inserted = 0 with "Products already
\* exist" and leaves them as they are.
C1_SeedTwice ==
  (db /\ rejected = 0) =>
    /\ Len(seedLog) >= 1 =>
         /\ seedLog[1].status = 200
         /\ seedLog[1].body = [inserted |-> 3]
         /\ Len(product) = 3
         /\ \A i \in 1 .. 3 : RecordOf(product[i]) = demo_products[i]
    /\ Len(seedLog) >= 2 =>
         /\ seedLog[2].status = 200
         /\ seedLog[2].body = [inserted |-> 0, message |-> "Products already exist"]

\* C1's case: two seed requests have answered, 3 and then 0.
C1_Witness ==
  /\ db /\ rejected = 0
  /\ Len(seedLog) >= 2
  /\ seedLog[1].body = [inserted |-> 3]
  /\ seedLog[2] = SeedNoop
  /\ Len(product) = 3

\* C8: a seed request that fails at one of its writes leaves the product collection
\* as it was before the request. (With the requests one after the other, a seed
\* request reaches its writes only from an empty collection.)
C8_SeedAllOrNothing ==
  (db /\ AllIdle /\ last.route = "seed" /\ last.status = 500) => product = <<>>

\* C9: from an empty product collection, seed requests in any interleaving never
\* leave more than the three demo products, and at most one of them inserts.
C9_SeedNeverDuplicates ==
  /\ Len(product) <= Len(demo_products)
  /\ Cardinality({i \in 1 .. Len(seedLog) :
                    seedLog[i].status = 200 /\ seedLog[i].body.inserted > 0}) <= 1

\* ---------------------------------------------------------------- frame

IsPrefix(s, t) == Len(s) <= Len(t) /\ SubSeq(t, 1, Len(s)) = s

\* C10: no step updates or deletes a stored document: each collection only grows
\* at its end; products are added only by a write of a seed request, messages only
\* by a contact request that answers 200, blog posts never; so the other routes
\* leave every collection as it is.
C10_NoUpdateNoDelete ==
  [][ /\ IsPrefix(product, product')
      /\ IsPrefix(message, message')
      /\ blogpost' = blogpost
      /\ product' # product =>
           \E c \in Clients : pc[c] = "insert" /\ inserted'[c] = inserted[c] + 1
      /\ message' # message => (last'.route = "contact" /\ last'.status = 200)
    ]_vars

\* C10's case: products seeded, a message stored, a checkout session created.
C10_Witness ==
  /\ Len(product) = 3
  /\ Len(message) = 1
  /\ last.route = "checkout" /\ last.status = 200

\* --------------------------------------------------------------- lookup

\* Stored collections of the bounded checks are built from a block of one or two
\* document shapes, repeated to the wanted size.
Repeat(block, n) == [i \in 1 .. n |-> block[((i - 1) % Len(block)) + 1]]

ProductShapes ==
  [title : {<<"T", "e", "e">>, <<"H", "a", "t">>}, category : {"Hoodies", "Tees"},
   active : BOOLEAN]

\* A stored product of a shape, with identifier n.
GenProduct(shape, n) ==
  [_id |-> Oid(n)]
    @@ ProductSchema(shape.title, Null, 10, shape.category, <<>>, <<>>, <<>>, shape.active)

\* n stored products with the identifiers 10, 11, ... (a, b, ... in hexadecimal).
GenProducts(block, n) ==
  LET shapes == Repeat(block, n) IN [i \in 1 .. n |-> GenProduct(shapes[i], 9 + i)]

\* The most products a lookup finds stored.
MaxStored == 3

\* Identifier strings of GET /api/products/{id}: well-formed ones (stored or not,
\* one in upper case) and malformed ones (empty, too short, too long, not
\* hexadecimal).
IdStrings ==
  {OidToStr(Oid(9 + n)) : n \in 0 .. (MaxStored + 1)}
    \cup {Zeros(OidLen - 1) \o <<"A">>}
    \cup {<<>>, <<"1">>, Zeros(OidLen - 1), Zeros(OidLen + 1),
          Zeros(OidLen - 1) \o <<"g">>, <<"x">> \o Zeros(OidLen - 1)}

LookupInit ==
  /\ db \in BOOLEAN
  /\ stripeKey = <<>>
  /\ \E shape \in ProductShapes, n \in 0 .. MaxStored : product = GenProducts(<<shape>>, n)
  /\ blogpost = <<>>
  /\ message = <<>>
  /\ Idle

LookupNext == \E product_id \in IdStrings : get_product(product_id)

SpecLookup == LookupInit /\ [][LookupNext]_vars

\* A string that is not 24 hexadecimal digits.
Malformed(s) ==
  \/ Len(s) # 24
  \/ \E i \in 1 .. Len(s) :
       s[i] \notin {"0", "1", "2", "3", "4", "5", "6", "7", "8", "9", "a", "b", "c", "d", "e",
                    "f", "A", "B", "C", "D", "E", "F"}

\* C2 as stated: a lookup with a malformed identifier answers 400, whether or not
\* the database handle is there.
C2_MalformedAlways400 ==
  (last.route = "get_product" /\ Malformed(last.req)) => last.status = 400

\* C2 as amended: a lookup with a malformed identifier answers 400 when the
\* database handle is there (never 200, 404 or 500), and 500 when it is not.
C2_MalformedIs400 ==
  (last.route = "get_product" /\ Malformed(last.req)) =>
    last.status = (IF db THEN 400 ELSE 500)

\* C2's case: a malformed identifier was looked up in a stored collection.
C2_Witness ==
  /\ db /\ product # <<>>
  /\ last.route = "get_product" /\ Malformed(last.req) /\ Len(last.req) = 23
  /\ last.status = 400

\* -------------------------------------------------------------- checkout

CartItems ==
  { TeeItem,
    [product_id |-> "p2", title |-> "Cap", quantity |-> 0, unit_price |-> 5,
     image |-> <<"https://img/cap.png">>],
    [product_id |-> "", title |-> "", quantity |-> -1, unit_price |-> -15, image |-> <<"">>] }

\* Bodies of POST /api/checkout: no line, one line, two lines.
Carts ==
  [items : {<<>>} \cup {<<i>> : i \in CartItems} \cup {<<i, j>> : i \in CartItems, j \in CartItems},
   currency : {"eur", "xyz"}, success_url : {"https://s"}, cancel_url : {"", "https://c"}]

StripeKeys == {<<>>, <<"">>, <<"sk_test">>}

CheckoutInit ==
  /\ db \in BOOLEAN
  /\ stripeKey \in StripeKeys
  /\ product = <<>>
  /\ blogpost = <<>>
  /\ message = <<>>
  /\ Idle

CheckoutNext ==
  \E payload \in Carts, created \in BOOLEAN : create_checkout_session(payload, created)

SpecCheckout == CheckoutInit /\ [][CheckoutNext]_vars

\* C5: with STRIPE_SECRET_KEY unset or empty, every checkout request answers 400
\* and the payment processor is handed no request.
C5_NoCredentialIs400 ==
  (stripeKey = <<>> \/ stripeKey = <<"">>) =>
    /\ sessions = <<>>
    /\ last.route = "checkout" => last.status = 400

\* C5's case: a cart of two lines was checked out with no credential.
C5_Witness ==
  /\ stripeKey = <<>>
  /\ last.route = "checkout" /\ Len(last.req.items) = 2
  /\ last.status = 400

\* --------------------------------------------------------------- contact

Texts == {<<"">>, <<"Ann">>}

Emails ==
  { <<"a", "@", "b", ".", "c">>, <<"a", "b", ".", "c">>, <<"a", "@", "b">>,
    <<"@", "b", ".", "c">>, <<"a", "@", "@", "b", ".", "c">>, <<>> }

\* Bodies of POST /api/contact, whole or with a field missing.
ContactPayloads ==
  [name : Texts \cup {<<>>}, email : {<<e>> : e \in Emails} \cup {<<>>},
   subject : {<<"Hi">>, <<"Order">>, <<>>}, message : {<<"Hello">>, <<>>}]

ContactInit ==
  /\ db \in BOOLEAN
  /\ stripeKey = <<>>
  /\ product = <<>>
  /\ blogpost = <<>>
  /\ message = <<>>
  /\ Idle

ContactNext ==
  \E payload \in ContactPayloads, accepted \in BOOLEAN : contact_submit(payload, accepted)

SpecContact == ContactInit /\ [][ContactNext]_vars

\* A contact body that does not make a Message: a field is missing, or the e-mail
\* address is malformed.
FailsValidation(payload) == ~ContactInOk(payload) \/ ~IsEmail(payload.email[1])

\* C7: a contact request whose body fails the Message validation is answered with
\* a 4xx status, and no message with a malformed address is ever stored.
C7_ValidationIs4xx ==
  /\ (last.route = "contact" /\ FailsValidation(last.req)) => last.status \in 400 .. 499
  /\ \A i \in 1 .. Len(message) : IsEmail(message[i].email.v)

\* --------------------------------------------------------------- listing

CategoryArgs == {<<>>, <<"">>, <<"Hoodies">>, <<"Tees">>}

QueryArgs == {<<>>, << <<>> >>, << <<"t", "E">> >>}

\* Collections of up to two products of any shapes.
SmallProducts ==
  {GenProducts(b, Len(b)) :
     b \in {<<>>} \cup {<<x>> : x \in ProductShapes}
             \cup {<<x, y>> : x \in ProductShapes, y \in ProductShapes}}

Shape(category, active) == [title |-> <<"T", "e", "e">>, category |-> category, active |-> active]

LargeShapes == {Shape(c, a) : c \in {"Hoodies", "Tees"}, a \in BOOLEAN}

LargeBlocks == {<<x>> : x \in LargeShapes} \cup {<<x, y>> : x \in LargeShapes, y \in LargeShapes}

\* Collections around the limit of a listing: a head of two products that a
\* listing of active Hoodies must leave out, or none, and then a repeated block.
LargeProducts ==
  {GenProducts(h \o Repeat(b, n - Len(h)), n) :
     h \in {<<>>, <<Shape("Tees", TRUE), Shape("Hoodies", FALSE)>>},
     b \in LargeBlocks,
     n \in (ProductLimit - 1) .. (ProductLimit + MaxExtra)}

ProductsInit ==
  /\ db \in BOOLEAN
  /\ stripeKey = <<>>
  /\ product \in SmallProducts \cup LargeProducts
  /\ blogpost = <<>>
  /\ message = <<>>
  /\ Idle

ProductsNext == \E category \in CategoryArgs, q \in QueryArgs : list_products(category, q)

SpecProducts == ProductsInit /\ [][ProductsNext]_vars

\* A response record without its id: the fields of the stored document.
FieldsOf(r) == [k \in DOMAIN r \ {"id"} |-> r[k]]

\* The places in a collection of the document a response record was made from.
PlacesOf(coll, r) ==
  LET n == HexValue(r.id.v)
  IN {j \in 1 .. Len(coll) : coll[j]["_id"].v = n /\ RecordOf(coll[j]) = FieldsOf(r)}

\* A category is given to a listing: the parameter is there and not empty (with
\* `?category=` the code filters by no category, as without the parameter).
CategoryGiven == last.req.category # <<>> /\ last.req.category[1] # ""

\* C3: a listing of products holds at most 100 records, each a stored product with
\* active = true and, when a category is given, with that category.
C3_Listing ==
  (last.route = "list_products" /\ last.status = 200) =>
    /\ Len(last.body) <= 100
    /\ \A i \in 1 .. Len(last.body) :
         /\ last.body[i].active = Bool(TRUE)
         /\ \E j \in PlacesOf(product, last.body[i]) :
              /\ product[j].active = Bool(TRUE)
              /\ CategoryGiven => product[j].category = Str(last.req.category[1])

\* C3's case: more than 100 active Hoodies are stored beside a Tee and an inactive
\* product, Hoodies are asked for, and 100 come back.
C3_Witness ==
  /\ last.route = "list_products" /\ last.status = 200
  /\ last.req.category = <<"Hoodies">>
  /\ Len(last.body) = 100
  /\ Len(find(product, [active |-> Bool(TRUE), category |-> Str("Hoodies")])) > 100
  /\ \E j \in 1 .. Len(product) : product[j].category = Str("Tees")
  /\ \E j \in 1 .. Len(product) : product[j].active = Bool(FALSE)

\* ------------------------------------------------------------------ blog

BlogCategoryArgs == {<<>>, <<"">>, <<"drops">>, <<"collabs">>}

BlogShapes == [category : {"drops", "collabs"}, published : BOOLEAN]

\* The identifier of the i-th inserted of n posts: growing with the insertion
\* order, falling, or with each pair of neighbours exchanged.
IdAt(order, i, n) ==
  CASE order = "growing" -> i
    [] order = "falling" -> n + 1 - i
    [] order = "pairs" -> IF i % 2 = 0 THEN i - 1 ELSE IF i = n THEN i ELSE i + 1

IdOrders == {"growing", "falling", "pairs"}

\* Stored posts of the given shapes, in insertion order.
GenBlog(shapes, order) ==
  [i \in 1 .. Len(shapes) |->
     [_id |-> Oid(IdAt(order, i, Len(shapes)))]
       @@ BlogSchema("Post", "post", shapes[i].category, shapes[i].published)]

BlogBlocks == {<<x>> : x \in BlogShapes} \cup {<<x, y>> : x \in BlogShapes, y \in BlogShapes}

\* Collections of up to two posts, and collections around the limit of a listing:
\* a head of one post that a listing of published drops must leave out, or none,
\* and then a repeated block.
BlogCollections ==
  {GenBlog(b, o) : b \in {<<>>} \cup BlogBlocks, o \in IdOrders}
    \cup {GenBlog(h \o Repeat(b, n - Len(h)), o) :
            h \in {<<>>, <<[category |-> "collabs", published |-> FALSE]>>},
            b \in BlogBlocks, o \in IdOrders,
            n \in (BlogLimit - 1) .. (BlogLimit + MaxExtra)}

BlogInit ==
  /\ db \in BOOLEAN
  /\ stripeKey = <<>>
  /\ product = <<>>
  /\ blogpost \in BlogCollections
  /\ message = <<>>
  /\ Idle

BlogNext == \E category \in BlogCategoryArgs : list_blog(category)

SpecBlog == BlogInit /\ [][BlogNext]_vars

\* Per record of the listing, the place in the blog collection of the post it was
\* made from (0 when it is no stored post).
PostPlaces ==
  LET n == Len(last.body)
  IN SubSeq([i \in 1 .. n |->
               LET hits == PlacesOf(blogpost, last.body[i])
               IN IF hits = {} THEN 0 ELSE CHOOSE j \in hits : TRUE], 1, n)

\* The posts a listing may return: published, and of the category when one is
\* given.
BlogMatches ==
  {j \in 1 .. Len(blogpost) :
     /\ blogpost[j].published = Bool(TRUE)
     /\ CategoryGiven => blogpost[j].category = Str(last.req.category[1])}

\* A listing holds at most 50 records, each a matching stored post.
BlogListingOk(pos) ==
  /\ Len(pos) <= 50
  /\ \A i \in 1 .. Len(pos) : pos[i] \in BlogMatches

\* Before(j, k): post j is to come before post k. The listing is in that order and
\* keeps the first 50 matches of it.
BlogOrderedBy(pos, Before(_, _)) ==
  LET kept == {pos[i] : i \in 1 .. Len(pos)}
  IN /\ \A i \in 1 .. Len(pos) - 1 : Before(pos[i], pos[i + 1])
     /\ \A j \in BlogMatches \ kept : Len(pos) = 50 /\ \A k \in kept : Before(k, j)

InsertedLater(j, k) == j > k

LargerId(j, k) == blogpost[j]["_id"].v > blogpost[k]["_id"].v

IdsGrow == \A j \in 1 .. Len(blogpost) - 1 : LargerId(j + 1, j)

\* C4 as stated: at most 50 published posts (of the category when one is given),
\* a post inserted later before a post inserted earlier, the 50 kept being the 50
\* most recently inserted matches.
C4_NewestFirstByInsertion ==
  (last.route = "list_blog" /\ last.status = 200) =>
    LET pos == PostPlaces
    IN BlogListingOk(pos) /\ BlogOrderedBy(pos, InsertedLater)

\* C4 as amended: at most 50 published posts (of the category when one is given),
\* a post with a larger identifier before a post with a smaller one, the 50 kept
\* being the matches with the 50 largest identifiers; that is newest-first by
\* insertion when the identifiers grow with the insertion order.
C4_NewestFirstById ==
  (last.route = "list_blog" /\ last.status = 200) =>
    LET pos == PostPlaces
    IN /\ BlogListingOk(pos)
       /\ BlogOrderedBy(pos, LargerId)
       /\ IdsGrow => BlogOrderedBy(pos, InsertedLater)

\* C4's case: more than 50 published drops are stored beside other posts, with
\* identifiers that do not follow the insertion order; drops are asked for and 50
\* come back.
C4_Witness ==
  /\ last.route = "list_blog" /\ last.status = 200
  /\ last.req.category = <<"drops">>
  /\ Len(last.body) = 50
  /\ Len(blogpost) > 50
  /\ ~IdsGrow
  /\ \E j \in 1 .. Len(blogpost) : blogpost[j].published = Bool(FALSE)

\* ------------------------------------------------------------- serialize

\* A key that a document does not have.
Absent == [t |-> "absent", v |-> 0]

\* Documents handed to serialize: None, {}, and documents of up to five keys, with
\* identifiers as _id, as another field's value, and inside a list or a
\* sub-document.
SerializeInputs ==
  {NoDoc}
    \cup {[k \in {k \in DOMAIN ch : ch[k] # Absent} |-> ch[k]] :
            ch \in [_id : {Absent, Oid(1), Oid(255)},
                    id : {Absent, Str("sku-1")},
                    owner : {Absent, Oid(2), Str("ann"), Null},
                    refs : {Absent, List(<<>>), List(<<Oid(3)>>), Map([by |-> Oid(4)])},
                    title : {Absent, Str("Tee")}]}

\* serialize(doc), called as the handlers call it.
serialize_call(doc) ==
  /\ last' = Response("serialize", doc, 200, serialize(doc))
  /\ UNCHANGED <<db, stripeKey, product, blogpost, message, sessions, pc, inserted,
                 seedCalls, rejected, seedLog>>

SerializeInit ==
  /\ db = TRUE
  /\ stripeKey = <<>>
  /\ product = <<>>
  /\ blogpost = <<>>
  /\ message = <<>>
  /\ Idle

SerializeNext == \E doc \in SerializeInputs : serialize_call(doc)

SpecSerialize == SerializeInit /\ [][SerializeNext]_vars

RECURSIVE Stringified(_)
\* A value with every identifier in it, at any depth, replaced by its string form.
Stringified(x) ==
  CASE x.t = "oid" -> Str(OidToStr(x))
    [] x.t = "list" -> List([i \in 1 .. Len(x.v) |-> Stringified(x.v[i])])
    [] x.t = "map" -> Map([k \in DOMAIN x.v |-> Stringified(x.v[k])])
    [] OTHER -> x

\* C6: serialize returns None and {} as they are; of any other document it returns
\* the mapping without _id, with id the string form of _id, with every other
\* embedded identifier replaced by its string form and every other field as it was.
C6_SerializeAll ==
  last.route = "serialize" =>
    LET doc == last.req
        out == last.body
    IN IF doc = NoDoc \/ DOMAIN doc = {}
         THEN out = doc
         ELSE /\ "_id" \notin DOMAIN out
              /\ "_id" \in DOMAIN doc => ("id" \in DOMAIN out /\ out["id"] = Str(OidToStr(doc["_id"])))
              /\ DOMAIN out \subseteq (DOMAIN doc \ {"_id"}) \cup {"id"}
              /\ \A k \in DOMAIN doc \ {"_id", "id"} :
                   k \in DOMAIN out /\ out[k] = Stringified(doc[k])
              /\ ("id" \in DOMAIN doc /\ "_id" \notin DOMAIN doc) =>
                   ("id" \in DOMAIN out /\ out["id"] = Stringified(doc["id"]))

====
